---------------------------- MODULE Spec2Model ----------------------------
(***************************************************************************)
(* Model of the meeting scheduler of Radrock7/telegram_bot:                *)
(*   src/scheduler2.py        find_best_meeting_slots and its helpers      *)
(*   src/update_schedule_2.py parse_selected_time, add_event_to_ics_contents*)
(*                                                                         *)
(* Time.  An aware datetime is an instant, a number of seconds counted in  *)
(* UTC from 00:00 of day 0; day 0 is a Monday.  A time zone is a fixed UTC  *)
(* offset in minutes (datetime.now().astimezone() yields a fixed-offset    *)
(* zone).  All instants of the inputs are even numbers of seconds, so that *)
(* the halving of a timedelta (slack / 2) is exact.                        *)
(***************************************************************************)
EXTENDS Integers, Sequences, FiniteSets

(***************************************************************************)
(* datetime arithmetic                                                     *)
(***************************************************************************)
\* t.astimezone(off) read as a naive wall-clock count of seconds
Local(t, off) == t + off * 60

\* t.date() for t carried in zone off
DateOf(t, off) == Local(t, off) \div 86400

HourOf(t, off) == (Local(t, off) % 86400) \div 3600

MinuteOf(t, off) == (Local(t, off) % 3600) \div 60

SecondOf(t, off) == Local(t, off) % 60

\* datetime.combine(day, time(h, m, s, tzinfo=off))
Wall(day, h, m, s, off) == day * 86400 + h * 3600 + m * 60 + s - off * 60

\* date.weekday(): Monday is 0
Weekday(day) == day % 7

Max(a, b) == IF a >= b THEN a ELSE b

Min(a, b) == IF a <= b THEN a ELSE b

(***************************************************************************)
(* Program constants                                                       *)
(***************************************************************************)
WorkStartHour == 9

WorkEndHour == 17

RoundTo == 5

WeekSpan == 4

FullWeekDays == 5

DefaultMaxSlots == 10

\* pytz.timezone("Asia/Singapore") attached with datetime.replace(tzinfo=...):
\* pytz then uses the zone's first entry, local mean time +06:55, not +08:00.
SGT == 415

(***************************************************************************)
(* Bounds of the model                                                     *)
(***************************************************************************)
MaxCalendars == 2

MaxInjections == 2

\* pairs of seconds that may pass between the two clock reads of one call
ClockDrift == 2

\* events in the pool handed to the per-day functions
MaxDayEvents == 3

\* rows the user_choices table may hold
MaxChoiceRows == 3

\* rows the user_choices table may hold once the slots are offered
MaxAgainRows == 4

\* slot keyboards one user may hold for one meeting
MaxKeyboards == 2

(***************************************************************************)
(* Inputs.  An event of the ics library: uid, begin, end (instants), the   *)
(* zone its begin/end are carried in, and its description.                 *)
(***************************************************************************)
Ev(u, b, e, z) == [uid |-> u, begin |-> b, end |-> e, tz |-> z, description |-> "busy"]

\* week 2 is days 14..18 (Monday..Friday), week 1 is days 7..11
EvMorning == Ev(1, Wall(14, 9, 0, 0, 480), Wall(14, 12, 0, 0, 480), 480)

EvAfternoon == Ev(2, Wall(14, 13, 0, 0, 480), Wall(14, 17, 0, 0, 480), 480)

EvTueA == Ev(3, Wall(15, 10, 0, 0, 480), Wall(15, 11, 0, 0, 480), 480)

EvTueB == Ev(4, Wall(15, 11, 0, 0, 480), Wall(15, 12, 30, 0, 480), 480)

EvOld == Ev(5, Wall(8, 10, 0, 0, 0), Wall(8, 11, 0, 0, 0), 0)

EvWeek == Ev(6, Wall(14, 0, 0, 0, 480), Wall(19, 0, 0, 0, 0), 480)

\* A calendar payload (ICS text): well-formed with its VEVENTs in file order,
\* or not valid ICS content.
Payload(evs) == [ok |-> TRUE, events |-> evs]

Malformed == [ok |-> FALSE, events |-> << >>]

Payloads ==
    { Payload(<< >>), Payload(<<EvMorning, EvAfternoon>>), Payload(<<EvTueB, EvTueA>>),
      Payload(<<EvOld>>), Payload(<<EvWeek>>), Malformed }

Durations == { -600, 0, 30, 60, 500 }

MaxSlotsChoices == { 2, DefaultMaxSlots }

\* zone of the host running the bot
HostZones == { 0, 480 }

\* wall-clock readings of the host clock: <<day, hour, minute, second>>
NowWalls ==
    { <<8, 10, 30, 0>>, <<13, 23, 59, 58>>, <<14, 8, 0, 0>>, <<14, 12, 20, 0>>,
      <<17, 12, 0, 20>>, <<18, 16, 50, 0>>, <<19, 10, 0, 0>> }

MeetingIds == { "111 111 111 111", "222 222 222 222" }

SeqsUpTo(S, n) == UNION { [1..k -> S] : k \in 1..n }

\* Event pool of the per-day functions: events of day 14 (times of zone +08:00)
\* that cross the window start, touch, overlap, nest, have no length, or run
\* into day 15.
DayEvents ==
    { Ev(11, Wall(14, 8, 0, 0, 480), Wall(14, 9, 30, 0, 480), 480),
      Ev(12, Wall(14, 9, 30, 0, 480), Wall(14, 10, 0, 0, 480), 480),
      Ev(13, Wall(14, 9, 45, 0, 480), Wall(14, 11, 0, 0, 480), 480),
      Ev(14, Wall(14, 9, 0, 0, 480), Wall(14, 12, 0, 0, 480), 480),
      Ev(15, Wall(14, 12, 35, 0, 480), Wall(14, 18, 0, 0, 480), 480),
      Ev(16, Wall(14, 12, 34, 0, 480), Wall(14, 17, 0, 0, 480), 480),
      Ev(17, Wall(14, 11, 0, 0, 480), Wall(14, 12, 2, 0, 480), 480),
      Ev(18, Wall(14, 14, 0, 0, 480), Wall(14, 14, 0, 0, 480), 480),
      Ev(19, Wall(14, 8, 0, 0, 0), Wall(15, 2, 0, 0, 0), 0) }

DayZones == { 420, 480 }

DayChoices == { 14, 15 }

\* the optional current_dt argument: None as << >>, else the reading (+08:00)
DayNows == { << >>, << Wall(14, 11, 54, 20, 480) >>, << Wall(14, 12, 1, 0, 480) >> }

DayDurations == { 30, 60 }

\* Telegram users talking to the bot (from_user.id)
Users == { 1, 2, 3 }

\* text messages: a meeting id, durations, and a text that is neither
Texts == { "111 111 111 111", "30", "0", "abc" }

\* " ".join(context.args) of /join: no argument, a malformed id, or an id
JoinArgs == MeetingIds \cup { "", "abc" }

\* .ics documents users upload: no events, or the whole week booked
Uploads == { Payload(<< >>), Payload(<<EvWeek>>) }

\* host clock and zone while the bot runs: <<day, hour, minute, second>>
BotNows == { <<17, 12, 0, 20>> }

BotZones == { 480 }

(***************************************************************************)
(* scheduler2.py                                                           *)
(***************************************************************************)
\* faulty variant: parse failures are swallowed and the payload counts as empty
ParsesOk_Lenient(ics_content) == TRUE

\* Calendar(ics_content) of the ics library: raises on content that is not
\* valid ICS; src has no handler around it.
ParsesOk(ics_content) == ics_content.ok

\* list(calendar.events)
load_calendar_from_content(ics_content) == ics_content.events

\* faulty variant: only events that begin inside the working window are kept
RECURSIVE ClipEvents_BeginInside(_, _, _)
ClipEvents_BeginInside(events, work_start, work_end) ==
    IF events = << >> THEN << >>
    ELSE LET event == Head(events)
             rest == ClipEvents_BeginInside(Tail(events), work_start, work_end)
         IN IF event.begin >= work_start /\ event.begin < work_end
            THEN << <<Max(event.begin, work_start), Min(event.end, work_end)>> >> \o rest
            ELSE rest

\* the (start, end) pairs of the events that meet the working window, clipped
RECURSIVE ClipEvents(_, _, _)
ClipEvents(events, work_start, work_end) ==
    IF events = << >> THEN << >>
    ELSE LET event == Head(events)
             rest == ClipEvents(Tail(events), work_start, work_end)
         IN IF event.end > work_start /\ event.begin < work_end
            THEN << <<Max(event.begin, work_start), Min(event.end, work_end)>> >> \o rest
            ELSE rest

\* list.sort(key=lambda x: x[0]): stable, ascending by start
RECURSIVE InsertByStart(_, _)
InsertByStart(sorted, x) ==
    IF sorted = << >> THEN <<x>>
    ELSE IF Head(sorted)[1] <= x[1] THEN <<Head(sorted)>> \o InsertByStart(Tail(sorted), x)
    ELSE <<x>> \o sorted

RECURSIVE SortByStart(_)
SortByStart(s) ==
    IF s = << >> THEN << >>
    ELSE InsertByStart(SortByStart(SubSeq(s, 1, Len(s) - 1)), s[Len(s)])

\* faulty variant: only overlapping intervals are merged, touching ones are not
MergeStep_Strict(merged, interval) ==
    IF merged = << >> THEN <<interval>>
    ELSE LET last == merged[Len(merged)]
         IN IF interval[1] < last[2]
            THEN [merged EXCEPT ![Len(merged)] = <<last[1], Max(last[2], interval[2])>>]
            ELSE Append(merged, interval)

\* one step of the merge loop: extend the last merged interval or append
MergeStep(merged, interval) ==
    IF merged = << >> THEN <<interval>>
    ELSE LET last == merged[Len(merged)]
         IN IF interval[1] <= last[2]
            THEN [merged EXCEPT ![Len(merged)] = <<last[1], Max(last[2], interval[2])>>]
            ELSE Append(merged, interval)

RECURSIVE MergeAll(_, _)
MergeAll(merged, day_events) ==
    IF day_events = << >> THEN merged
    ELSE MergeAll(MergeStep(merged, Head(day_events)), Tail(day_events))

events_for_day(events, day, tzinfo) ==
    LET work_start == Wall(day, WorkStartHour, 0, 0, tzinfo)
        work_end == Wall(day, WorkEndHour, 0, 0, tzinfo)
    IN MergeAll(<< >>, SortByStart(ClipEvents(events, work_start, work_end)))

\* faulty variant: the loop over consecutive busy intervals never runs
Gaps_None(busy, i) == << >>

\* the gaps between consecutive busy intervals, from index i on
RECURSIVE Gaps(_, _)
Gaps(busy, i) ==
    IF i >= Len(busy) THEN << >>
    ELSE (IF busy[i][2] < busy[i + 1][1] THEN << <<busy[i][2], busy[i + 1][1]>> >> ELSE << >>)
         \o Gaps(busy, i + 1)

\* faulty variant: the start is advanced but emptied intervals are kept
RECURSIVE ClipToNow_KeepAll(_, _)
ClipToNow_KeepAll(free, current_dt) ==
    IF free = << >> THEN << >>
    ELSE << <<Max(Head(free)[1], current_dt), Head(free)[2]>> >>
         \o ClipToNow_KeepAll(Tail(free), current_dt)

\* "today" clipping of the free list (lines 56-63)
RECURSIVE ClipToNow(_, _)
ClipToNow(free, current_dt) ==
    IF free = << >> THEN << >>
    ELSE LET start == IF current_dt > Head(free)[1]
                      THEN Max(Head(free)[1], current_dt) ELSE Head(free)[1]
             end == Head(free)[2]
         IN (IF start < end THEN << <<start, end>> >> ELSE << >>)
            \o ClipToNow(Tail(free), current_dt)

\* faulty variant: the interval after the last busy one is forgotten
free_intervals_for_day_NoTail(events, day, tzinfo, clip, current_dt) ==
    LET work_start == Wall(day, WorkStartHour, 0, 0, tzinfo)
        busy == events_for_day(events, day, tzinfo)
        free == IF busy = << >> THEN << >>
                ELSE (IF work_start < busy[1][1]
                      THEN << <<work_start, busy[1][1]>> >> ELSE << >>)
                     \o Gaps(busy, 1)
    IN IF clip /\ day = DateOf(current_dt, tzinfo) THEN ClipToNow(free, current_dt) ELSE free

\* clip is TRUE when a current_dt is passed (it is passed exactly for today)
free_intervals_for_day(events, day, tzinfo, clip, current_dt) ==
    LET work_start == Wall(day, WorkStartHour, 0, 0, tzinfo)
        work_end == Wall(day, WorkEndHour, 0, 0, tzinfo)
        busy == events_for_day(events, day, tzinfo)
        free == IF busy = << >> THEN << <<work_start, work_end>> >>
                ELSE (IF work_start < busy[1][1]
                      THEN << <<work_start, busy[1][1]>> >> ELSE << >>)
                     \o Gaps(busy, 1)
                     \o (IF busy[Len(busy)][2] < work_end
                         THEN << <<busy[Len(busy)][2], work_end>> >> ELSE << >>)
    IN IF clip /\ day = DateOf(current_dt, tzinfo) THEN ClipToNow(free, current_dt) ELSE free

\* faulty variant: the minute always moves up to the next multiple of 5
RoundStart_Up(candidate_start, tzinfo) ==
    candidate_start - (Local(candidate_start, tzinfo) % 300) + 300

\* faulty variant: replace(minute=...) without second=0
RoundStart_KeepSeconds(candidate_start, tzinfo) ==
    LET minute == MinuteOf(candidate_start, tzinfo)
        down == (minute \div RoundTo) * RoundTo
        rounded_minute == IF 2 * (minute % RoundTo) >= RoundTo THEN down + RoundTo ELSE down
        carried == IF rounded_minute >= 60 THEN candidate_start + 3600 ELSE candidate_start
        new_minute == IF rounded_minute >= 60 THEN 0 ELSE rounded_minute
    IN carried - MinuteOf(carried, tzinfo) * 60 + new_minute * 60

\* lines 77-84: the minute rounded to a multiple of 5, seconds zeroed
RoundStart(candidate_start, tzinfo) ==
    LET minute == MinuteOf(candidate_start, tzinfo)
        down == (minute \div RoundTo) * RoundTo
        \* minute % 5 >= 2.5 on an integer minute
        rounded_minute == IF 2 * (minute % RoundTo) >= RoundTo THEN down + RoundTo ELSE down
        carried == IF rounded_minute >= 60 THEN candidate_start + 3600 ELSE candidate_start
        new_minute == IF rounded_minute >= 60 THEN 0 ELSE rounded_minute
    IN carried - MinuteOf(carried, tzinfo) * 60 - SecondOf(carried, tzinfo) + new_minute * 60

\* faulty variant: line 86 left out, the end computed before rounding is kept
PlaceSlot_StaleEnd(centered, meeting_td, tzinfo) ==
    <<RoundStart(centered, tzinfo), centered + meeting_td>>

\* lines 84-86: <<candidate_start, candidate_end>> after rounding; the end is
\* recomputed from the rounded start
PlaceSlot(centered, meeting_td, tzinfo) ==
    <<RoundStart(centered, tzinfo), RoundStart(centered, tzinfo) + meeting_td>>

\* faulty variant: only the start of the rounded slot is checked
OutOfInterval_StartOnly(candidate_start, candidate_end, start, end) ==
    candidate_start < start

\* line 88: the rounded slot no longer fits its interval
OutOfInterval(candidate_start, candidate_end, start, end) ==
    candidate_start < start \/ candidate_end > end

\* the (score, start, end) tuple as a one-element sequence, None as << >>
candidate_from_interval(interval, meeting_td, tzinfo) ==
    LET start == interval[1]
        end == interval[2]
        interval_td == end - start
        slack == interval_td - meeting_td
        placed == PlaceSlot(start + slack \div 2, meeting_td, tzinfo)
        candidate_start == placed[1]
        candidate_end == placed[2]
    IN IF interval_td < meeting_td THEN << >>
       ELSE IF OutOfInterval(candidate_start, candidate_end, start, end) THEN << >>
       ELSE << [score |-> slack \div 2, start |-> candidate_start, end |-> candidate_end] >>

RECURSIVE MinBeginDate(_)
MinBeginDate(events) ==
    LET d == DateOf(Head(events).begin, Head(events).tz)
    IN IF Len(events) = 1 THEN d ELSE Min(d, MinBeginDate(Tail(events)))

\* clock is the reading of datetime.now() made inside infer_working_week
infer_working_week(events, tzinfo, clock) ==
    LET anchor == IF events # << >> THEN MinBeginDate(events) ELSE DateOf(clock, tzinfo)
        monday == anchor - Weekday(anchor)
    IN <<monday, monday + WeekSpan>>

\* faulty variant: the Friday itself is not counted as inside the week
InWeek_BeforeFriday(week, today) == week[1] <= today /\ today < week[2]

\* line 109
InWeek(week, today) == week[1] <= today /\ today <= week[2]

get_scheduling_days(week, current_dt, tzinfo) ==
    LET today == DateOf(current_dt, tzinfo)
    IN IF InWeek(week, today)
       THEN [i \in 1..(week[2] - today + 1) |-> today + (i - 1)]
       ELSE [i \in 1..FullWeekDays |-> week[1] + (i - 1)]

\* lines 132-136 for the free intervals of one day
RECURSIVE CandidatesOf(_, _, _)
CandidatesOf(free_intervals, meeting_td, tzinfo) ==
    IF free_intervals = << >> THEN << >>
    ELSE candidate_from_interval(Head(free_intervals), meeting_td, tzinfo)
         \o CandidatesOf(Tail(free_intervals), meeting_td, tzinfo)

\* lines 130-136 for the days from index i on
RECURSIVE ScanDays(_, _, _, _, _, _)
ScanDays(days, i, events, meeting_td, tzinfo, current_dt) ==
    IF i > Len(days) THEN << >>
    ELSE CandidatesOf(free_intervals_for_day(events, days[i], tzinfo,
                          days[i] = DateOf(current_dt, tzinfo), current_dt),
                      meeting_td, tzinfo)
         \o ScanDays(days, i + 1, events, meeting_td, tzinfo, current_dt)

\* faulty variant: ascending sort then reversal, which reverses equal scores
Outranks_Strict(x, y) == x.score > y.score

\* does x go before y in list.sort(key=score, reverse=True)
Outranks(x, y) == x.score >= y.score

\* stable insertion: x goes after every element that outranks it
RECURSIVE InsertByScore(_, _)
InsertByScore(sorted, x) ==
    IF sorted = << >> THEN <<x>>
    ELSE IF Outranks(Head(sorted), x) THEN <<Head(sorted)>> \o InsertByScore(Tail(sorted), x)
    ELSE <<x>> \o sorted

RECURSIVE SortByScore(_)
SortByScore(s) ==
    IF s = << >> THEN << >>
    ELSE InsertByScore(SortByScore(SubSeq(s, 1, Len(s) - 1)), s[Len(s)])

\* candidate_slots[:max_slots]
TopSlots(sorted, n) == SubSeq(sorted, 1, Min(n, Len(sorted)))

\* the descriptor "YYYY-MM-DD: HH:MM-HH:MM": the date and the clock fields of
\* start, and the clock fields alone of end
FormatSlot(c, tzinfo) ==
    [date |-> DateOf(c.start, tzinfo),
     sh |-> HourOf(c.start, tzinfo), sm |-> MinuteOf(c.start, tzinfo),
     eh |-> HourOf(c.end, tzinfo), em |-> MinuteOf(c.end, tzinfo)]

FormatAll(slots, tzinfo) == [i \in 1..Len(slots) |-> FormatSlot(slots[i], tzinfo)]

\* some payload makes Calendar(...) raise, and the call with it
RaisesOnLoad(ics_contents) == \E i \in 1..Len(ics_contents) : ~ParsesOk(ics_contents[i])

RECURSIVE LoadAll(_)
LoadAll(ics_contents) ==
    IF ics_contents = << >> THEN << >>
    ELSE load_calendar_from_content(Head(ics_contents)) \o LoadAll(Tail(ics_contents))

\* The value returned when no payload raises.  current_dt is the reading of
\* line 125, clock the one made inside infer_working_week.
find_best_meeting_slots(ics_contents, meeting_duration_minutes, max_slots, tzinfo, current_dt, clock) ==
    LET all_events == LoadAll(ics_contents)
        week == infer_working_week(all_events, tzinfo, clock)
        scheduling_days == get_scheduling_days(week, current_dt, tzinfo)
        candidate_slots == ScanDays(scheduling_days, 1, all_events,
                                    meeting_duration_minutes * 60, tzinfo, current_dt)
    IN FormatAll(TopSlots(SortByScore(candidate_slots), max_slots), tzinfo)

(***************************************************************************)
(* update_schedule_2.py                                                    *)
(***************************************************************************)
\* the zone parse_selected_time attaches to the parsed naive datetimes
ParseZone == SGT

parse_selected_time(selected_time) ==
    <<Wall(selected_time.date, selected_time.sh, selected_time.sm, 0, ParseZone),
      Wall(selected_time.date, selected_time.eh, selected_time.em, 0, ParseZone)>>

\* str(calendar) of ics 0.7: every VEVENT is written with its instants in UTC
RECURSIVE Serialize(_)
Serialize(events) ==
    IF events = << >> THEN << >>
    ELSE <<[Head(events) EXCEPT !.tz = 0]>> \o Serialize(Tail(events))

\* lines 28-32: Event() draws a fresh uid; the description carries the id
NewEvent(uid, start_time, end_time, meeting_id) ==
    [uid |-> uid, begin |-> start_time, end |-> end_time, tz |-> ParseZone,
     description |-> meeting_id]

\* faulty variant: the calendar's events are replaced by the new event
AddToCalendar_Replace(ics_content, event) == Payload(Serialize(<<event>>))

\* lines 25-38 for one payload
AddToCalendar(ics_content, event) ==
    Payload(Serialize(Append(load_calendar_from_content(ics_content), event)))

\* uid0 + i is the uid drawn for the event added to the i-th payload
add_event_to_ics_contents(contents, start_time, end_time, meeting_id, uid0) ==
    [i \in 1..Len(contents) |->
        AddToCalendar(contents[i], NewEvent(uid0 + i, start_time, end_time, meeting_id))]

(***************************************************************************)
(* bot.py: pure parts.  NULL and None are << >>, a present value v is <<v>>. *)
(***************************************************************************)
\* the pattern ^\d{3}( \d{3}){3}$ on the texts of the model
valid_meeting_id(meeting_id) == meeting_id \in MeetingIds

\* str.isdigit on the texts of the model
IsDigit(text) == text \in { "30", "0" }

\* int(text) for a text of digits
IntOf(text) == IF text = "30" THEN 30 ELSE 0

\* a row of table meetings as store_meeting_id inserts it
NewMeetingRow(user_id) ==
    [user_a_schedule |-> << >>, user_b_schedule |-> << >>, user_a_id |-> user_id,
     user_b_id |-> << >>, meeting_duration |-> << >>]

\* context.user_data of one user after clear(); selected[m] is
\* user_data[m][user_id], a missing entry and an empty set behaving alike
NoUserData ==
    [current_meeting |-> << >>, awaiting_duration |-> FALSE,
     selected |-> [m \in MeetingIds |-> {}]]

Msg(to, text) == [to |-> to, text |-> text, document |-> << >>]

Doc(to, ics_content) == [to |-> to, text |-> "updated_schedule.ics", document |-> <<ics_content>>]

\* faulty variant: the upload replaces whatever is stored
StoreSchedule_Overwrite(stored, calendar_content) == <<calendar_content>>

\* lines 153-163: the column is written only while it IS NULL
StoreSchedule(stored, calendar_content) ==
    IF stored = << >> THEN <<calendar_content>> ELSE stored

\* a schedule column as an element of ics_contents; Calendar(None) is a
\* calendar without events
ContentOf(stored) == IF stored = << >> THEN Payload(<< >>) ELSE stored[1]

\* the rows of user_choices of one meeting, in rowid order
RECURSIVE ChoicesOf(_, _)
ChoicesOf(rows, meeting_id) ==
    IF rows = << >> THEN << >>
    ELSE (IF Head(rows).meeting_id = meeting_id THEN <<Head(rows)>> ELSE << >>)
         \o ChoicesOf(Tail(rows), meeting_id)

SetOf(seq) == { seq[i] : i \in 1..Len(seq) }

(***************************************************************************)
(* State                                                                   *)
(***************************************************************************)
VARIABLES
    ics_contents,               \* argument: the calendar payloads
    meeting_duration_minutes,   \* argument
    max_slots,                  \* argument
    tzinfo,                     \* zone of the host (current_dt.tzinfo)
    pc,                         \* position in find_best_meeting_slots
    loaded,                     \* payloads parsed so far
    all_events,
    current_dt,
    week,                       \* <<working_week_start, working_week_end>>
    scheduling_days,
    candidate_slots,
    best_slots,
    formatted_slots,            \* the value returned
    selected,                   \* result of parse_selected_time, if called
    add_input,                  \* payloads given to the last add_event_to_ics_contents
    updated_contents,           \* its result
    injections,                 \* calls of add_event_to_ics_contents made
    add_meeting_id,             \* meeting_id given to the last call
    add_status,                 \* "idle", "ok" or "error" for the last call
    day_pc,                     \* position in the per-day call sequence
    day_events,                 \* argument events
    day_arg,                    \* argument day
    day_tzinfo,                 \* argument tzinfo
    day_current_dt,             \* argument current_dt, << >> for None
    day_meeting_td,             \* argument meeting_td, in minutes
    merged_list,                \* value returned by events_for_day
    free_list,                  \* value returned by free_intervals_for_day
    candidates,                 \* values returned by candidate_from_interval,
                                \* one per free interval, << >> for None
    meetings,                   \* table meetings: meeting_id -> << >> or <<row>>
    user_choices,               \* table user_choices: rows in rowid order
    user_data,                  \* context.user_data of each user
    bot_data,                   \* context.bot_data: meeting_id -> cached slots
    keyboards,                  \* slot keyboards each user holds, per meeting
    outbox                      \* what the last handler pushed with
                                \* context.bot.send_message / send_document

callVars == <<ics_contents, meeting_duration_minutes, max_slots, tzinfo>>

engineVars == <<pc, loaded, all_events, current_dt, week, scheduling_days,
                candidate_slots, best_slots, formatted_slots>>

updateVars == <<selected, add_input, updated_contents, injections, add_meeting_id,
                add_status>>

dayVars == <<day_pc, day_events, day_arg, day_tzinfo, day_current_dt, day_meeting_td,
             merged_list, free_list, candidates>>

botVars == <<meetings, user_choices, user_data, bot_data, keyboards, outbox>>

vars == <<callVars, engineVars, updateVars, dayVars, botVars>>

\* the bot has just started on an empty database (lines 27-38)
BotStart ==
    /\ meetings = [m \in MeetingIds |-> << >>]
    /\ user_choices = << >>
    /\ user_data = [u \in Users |-> NoUserData]
    /\ bot_data = [m \in MeetingIds |-> << >>]
    /\ keyboards = [u \in Users |-> [m \in MeetingIds |-> 0]]
    /\ outbox = << >>

\* no call of the per-day functions in progress
DayIdle ==
    /\ day_pc = "idle"
    /\ day_events = << >>
    /\ day_arg = 0
    /\ day_tzinfo = 0
    /\ day_current_dt = << >>
    /\ day_meeting_td = 0
    /\ merged_list = << >>
    /\ free_list = << >>
    /\ candidates = << >>

\* no call of find_best_meeting_slots / add_event_to_ics_contents in progress
EngineIdle ==
    /\ ics_contents = << >>
    /\ meeting_duration_minutes = 0
    /\ max_slots = 0
    /\ tzinfo = 0
    /\ pc = "idle"
    /\ loaded = 0
    /\ all_events = << >>
    /\ current_dt = 0
    /\ week = <<0, 0>>
    /\ scheduling_days = << >>
    /\ candidate_slots = << >>
    /\ best_slots = << >>
    /\ formatted_slots = << >>
    /\ selected = << >>
    /\ add_input = << >>
    /\ updated_contents = << >>
    /\ injections = 0
    /\ add_meeting_id = ""
    /\ add_status = "idle"

Init ==
    /\ ics_contents \in SeqsUpTo(Payloads, MaxCalendars)
    /\ meeting_duration_minutes \in Durations
    /\ max_slots \in MaxSlotsChoices
    /\ tzinfo \in HostZones
    /\ pc = "load"
    /\ loaded = 0
    /\ all_events = << >>
    /\ current_dt = 0
    /\ week = <<0, 0>>
    /\ scheduling_days = << >>
    /\ candidate_slots = << >>
    /\ best_slots = << >>
    /\ formatted_slots = << >>
    /\ selected = << >>
    /\ add_input = << >>
    /\ updated_contents = << >>
    /\ injections = 0
    /\ add_meeting_id = ""
    /\ add_status = "idle"
    /\ DayIdle
    /\ BotStart

(***************************************************************************)
(* find_best_meeting_slots                                                 *)
(***************************************************************************)
\* lines 119-121, one iteration: a payload that does not parse raises out of
\* the call
LoadCalendar ==
    /\ pc = "load"
    /\ loaded < Len(ics_contents)
    /\ IF ParsesOk(ics_contents[loaded + 1])
       THEN /\ all_events' = all_events \o load_calendar_from_content(ics_contents[loaded + 1])
            /\ loaded' = loaded + 1
            /\ pc' = IF loaded + 1 = Len(ics_contents) THEN "clock" ELSE "load"
       ELSE /\ pc' = "error"
            /\ UNCHANGED <<all_events, loaded>>
    /\ UNCHANGED <<dayVars, botVars, callVars, current_dt, week, scheduling_days, candidate_slots,
                   best_slots, formatted_slots, updateVars>>

\* lines 123-125: the clock is read after the calendars are loaded
ReadClock ==
    /\ pc = "clock"
    /\ \E w \in NowWalls : current_dt' = Wall(w[1], w[2], w[3], w[4], tzinfo)
    /\ pc' = "days"
    /\ UNCHANGED <<dayVars, botVars, callVars, loaded, all_events, week, scheduling_days, candidate_slots,
                   best_slots, formatted_slots, updateVars>>

\* line 127: infer_working_week reads the clock again when there are no events
GetSchedulingDays ==
    /\ pc = "days"
    /\ \E drift \in 0..ClockDrift :
          /\ week' = infer_working_week(all_events, tzinfo, current_dt + 2 * drift)
          /\ scheduling_days' = get_scheduling_days(week', current_dt, tzinfo)
    /\ pc' = "scan"
    /\ UNCHANGED <<dayVars, botVars, callVars, loaded, all_events, current_dt, candidate_slots,
                   best_slots, formatted_slots, updateVars>>

\* lines 129-136
CollectCandidates ==
    /\ pc = "scan"
    /\ candidate_slots' = ScanDays(scheduling_days, 1, all_events,
                                   meeting_duration_minutes * 60, tzinfo, current_dt)
    /\ pc' = "rank"
    /\ UNCHANGED <<dayVars, botVars, callVars, loaded, all_events, current_dt, week, scheduling_days,
                   best_slots, formatted_slots, updateVars>>

\* lines 138-145
RankAndFormat ==
    /\ pc = "rank"
    /\ best_slots' = TopSlots(SortByScore(candidate_slots), max_slots)
    /\ formatted_slots' = FormatAll(best_slots', tzinfo)
    /\ pc' = "done"
    /\ UNCHANGED <<dayVars, botVars, callVars, loaded, all_events, current_dt, week, scheduling_days,
                   candidate_slots, updateVars>>

(***************************************************************************)
(* The caller's use of a returned descriptor (bot.py lines 316-329)        *)
(***************************************************************************)
ParseSelectedTime ==
    /\ pc = "done"
    /\ selected = << >>
    /\ \E k \in 1..Len(formatted_slots) :
          LET times == parse_selected_time(formatted_slots[k])
          IN selected' = << [index |-> k, start_time |-> times[1], end_time |-> times[2]] >>
    /\ UNCHANGED <<dayVars, botVars, callVars, engineVars, add_input, updated_contents, injections,
                   add_meeting_id, add_status>>

\* Event.end refuses an end before begin (ValueError), which aborts the call
AddEvent ==
    /\ selected # << >>
    /\ injections < MaxInjections
    /\ add_status # "error"
    /\ \E meeting_id \in MeetingIds :
          LET contents == IF injections = 0 THEN ics_contents ELSE updated_contents
              s == selected[1]
          IN /\ add_input' = contents
             /\ add_meeting_id' = meeting_id
             /\ IF s.end_time < s.start_time
                THEN /\ add_status' = "error"
                     /\ UNCHANGED updated_contents
                ELSE /\ add_status' = "ok"
                     /\ updated_contents' =
                           add_event_to_ics_contents(contents, s.start_time, s.end_time,
                                                     meeting_id, 100 * (injections + 1))
    /\ injections' = injections + 1
    /\ UNCHANGED <<dayVars, botVars, callVars, engineVars, selected>>

Next ==
    \/ LoadCalendar
    \/ ReadClock
    \/ GetSchedulingDays
    \/ CollectCandidates
    \/ RankAndFormat
    \/ ParseSelectedTime
    \/ AddEvent

Spec == Init /\ [][Next]_vars

(***************************************************************************)
(* The per-day functions called on their own                               *)
(***************************************************************************)
InitDay ==
    /\ EngineIdle
    /\ BotStart
    /\ day_pc = "events"
    /\ day_events \in {<< >>} \cup SeqsUpTo(DayEvents, MaxDayEvents)
    /\ day_arg \in DayChoices
    /\ day_tzinfo \in DayZones
    /\ day_current_dt \in DayNows
    /\ day_meeting_td \in DayDurations
    /\ merged_list = << >>
    /\ free_list = << >>
    /\ candidates = << >>

EventsForDay ==
    /\ day_pc = "events"
    /\ merged_list' = events_for_day(day_events, day_arg, day_tzinfo)
    /\ day_pc' = "free"
    /\ UNCHANGED <<botVars, callVars, engineVars, updateVars, day_events, day_arg, day_tzinfo,
                   day_current_dt, day_meeting_td, free_list, candidates>>

FreeIntervalsForDay ==
    /\ day_pc = "free"
    /\ free_list' = IF day_current_dt = << >>
                    THEN free_intervals_for_day(day_events, day_arg, day_tzinfo, FALSE, 0)
                    ELSE free_intervals_for_day(day_events, day_arg, day_tzinfo, TRUE,
                                                day_current_dt[1])
    /\ day_pc' = "candidates"
    /\ UNCHANGED <<botVars, callVars, engineVars, updateVars, day_events, day_arg, day_tzinfo,
                   day_current_dt, day_meeting_td, merged_list, candidates>>

\* one call per free interval, in list order
CandidateFromInterval ==
    /\ day_pc = "candidates"
    /\ Len(candidates) < Len(free_list)
    /\ candidates' = Append(candidates,
                            candidate_from_interval(free_list[Len(candidates) + 1],
                                                    day_meeting_td * 60, day_tzinfo))
    /\ UNCHANGED <<botVars, callVars, engineVars, updateVars, day_pc, day_events, day_arg,
                   day_tzinfo, day_current_dt, day_meeting_td, merged_list, free_list>>

NextDay ==
    \/ EventsForDay
    \/ FreeIntervalsForDay
    \/ CandidateFromInterval

SpecDay == InitDay /\ [][NextDay]_vars

(***************************************************************************)
(* bot.py: the handlers.  The Application handles one update at a time, so  *)
(* each handler runs from its first to its last line as one step.          *)
(***************************************************************************)
nonBotVars == <<callVars, engineVars, updateVars, dayVars>>

Row(meeting_id) == meetings[meeting_id][1]

\* lines 53-57
start_new_meeting(user_id) ==
    /\ user_data' = [user_data EXCEPT ![user_id] = NoUserData]
    /\ outbox' = << >>    \* reply "send_meeting_id"
    /\ UNCHANGED <<meetings, user_choices, bot_data, keyboards>>

\* lines 60-87
store_meeting_id(user_id, meeting_id) ==
    IF ~valid_meeting_id(meeting_id)
    THEN /\ outbox' = << >>    \* reply "invalid_format"
         /\ UNCHANGED <<meetings, user_choices, user_data, bot_data, keyboards>>
    ELSE IF meetings[meeting_id] # << >>
    THEN /\ outbox' = << >>    \* reply "id_exists"
         /\ UNCHANGED <<meetings, user_choices, user_data, bot_data, keyboards>>
    ELSE /\ meetings' = [meetings EXCEPT ![meeting_id] = << NewMeetingRow(user_id) >>]
         /\ user_data' = [user_data EXCEPT ![user_id].current_meeting = <<meeting_id>>,
                                           ![user_id].awaiting_duration = TRUE]
         /\ outbox' = << >>    \* reply "id_stored"
         /\ UNCHANGED <<user_choices, bot_data, keyboards>>

\* lines 90-116
store_meeting_duration(user_id, text) ==
    IF ~IsDigit(text)
    THEN /\ outbox' = << >>    \* reply "invalid_duration"
         /\ UNCHANGED <<meetings, user_choices, user_data, bot_data, keyboards>>
    ELSE IF IntOf(text) <= 0
    THEN /\ outbox' = << >>    \* reply "duration_not_positive"
         /\ UNCHANGED <<meetings, user_choices, user_data, bot_data, keyboards>>
    ELSE IF user_data[user_id].current_meeting = << >>
    THEN /\ outbox' = << >>    \* reply "no_meeting_id"
         /\ UNCHANGED <<meetings, user_choices, user_data, bot_data, keyboards>>
    ELSE LET meeting_id == user_data[user_id].current_meeting[1]
         IN /\ meetings' = IF meetings[meeting_id] = << >> THEN meetings
                           ELSE [meetings EXCEPT ![meeting_id] =
                                    << [Row(meeting_id) EXCEPT
                                           !.meeting_duration = << IntOf(text) >>] >>]
            /\ user_data' = [user_data EXCEPT ![user_id].awaiting_duration = FALSE]
            /\ outbox' = << >>    \* reply "duration_set"
            /\ UNCHANGED <<user_choices, bot_data, keyboards>>

\* lines 119-123
handle_text(user_id, text) ==
    IF user_data[user_id].awaiting_duration
    THEN store_meeting_duration(user_id, text)
    ELSE store_meeting_id(user_id, text)

\* one more keyboard for each of the users
SendKeyboards(to, meeting_id) ==
    [u \in Users |-> IF u \in to
                     THEN [keyboards[u] EXCEPT ![meeting_id] = @ + 1]
                     ELSE keyboards[u]]

\* lines 168-195, after the commit: row is the meeting as re-read
AnnounceSlots(meeting_id, row, host_tz, now_dt, clock) ==
    LET contents == << ContentOf(row.user_a_schedule), ContentOf(row.user_b_schedule) >>
        user_a_id == row.user_a_id
        user_b_id == row.user_b_id[1]
        calculating == << Msg(user_a_id, "calculating"), Msg(user_b_id, "calculating") >>
        common_slots == find_best_meeting_slots(contents, row.meeting_duration[1],
                                                DefaultMaxSlots, host_tz, now_dt, clock)
    IN IF row.meeting_duration = << >>
       THEN /\ outbox' = << >>    \* reply "duration_not_set"
            /\ UNCHANGED <<bot_data, keyboards>>
       ELSE IF row.user_a_schedule = << >> \/ row.user_b_schedule = << >>
       THEN /\ outbox' = << >>
            /\ UNCHANGED <<bot_data, keyboards>>
       ELSE IF RaisesOnLoad(contents)
       THEN /\ outbox' = calculating
            /\ UNCHANGED <<bot_data, keyboards>>
       ELSE IF common_slots # << >>
       THEN /\ keyboards[user_a_id][meeting_id] < MaxKeyboards
            /\ keyboards[user_b_id][meeting_id] < MaxKeyboards
            /\ bot_data' = [bot_data EXCEPT ![meeting_id] = common_slots]
            /\ keyboards' = SendKeyboards({user_a_id, user_b_id}, meeting_id)
            /\ outbox' = calculating
                         \o << Msg(user_a_id, "common_free_slots"),
                               Msg(user_b_id, "common_free_slots") >>
       ELSE /\ outbox' = calculating
                         \o << Msg(user_a_id, "no_common_free_slots"),
                               Msg(user_b_id, "no_common_free_slots") >>
            /\ UNCHANGED <<bot_data, keyboards>>

\* lines 126-195
handle_ics_upload(user_id, calendar_content, host_tz, now_dt, clock) ==
    IF user_data[user_id].current_meeting = << >>
    THEN /\ outbox' = << >>    \* reply "no_active_meeting"
         /\ UNCHANGED <<meetings, user_choices, user_data, bot_data, keyboards>>
    ELSE IF user_data[user_id].awaiting_duration
    THEN /\ outbox' = << >>    \* reply "enter_duration_first"
         /\ UNCHANGED <<meetings, user_choices, user_data, bot_data, keyboards>>
    ELSE IF meetings[user_data[user_id].current_meeting[1]] = << >>
    THEN /\ outbox' = << >>    \* reply "meeting_not_found"
         /\ UNCHANGED <<meetings, user_choices, user_data, bot_data, keyboards>>
    ELSE LET meeting_id == user_data[user_id].current_meeting[1]
             meeting_data == Row(meeting_id)
             is_a == meeting_data.user_a_id = user_id
             row == IF is_a
                    THEN [meeting_data EXCEPT
                             !.user_a_schedule = StoreSchedule(@, calendar_content)]
                    ELSE [meeting_data EXCEPT
                             !.user_b_schedule = StoreSchedule(@, calendar_content)]
         IN /\ meetings' = [meetings EXCEPT ![meeting_id] = <<row>>]
            /\ AnnounceSlots(meeting_id, row, host_tz, now_dt, clock)
            /\ UNCHANGED <<user_choices, user_data>>

\* faulty variant: the test of existing_user_b_id (lines 214-217) is left out
join_meeting_Rejoin(user_id, meeting_id) ==
    IF meeting_id = "" \/ ~valid_meeting_id(meeting_id) \/ meetings[meeting_id] = << >>
    THEN /\ outbox' = << >>
         /\ UNCHANGED <<meetings, user_choices, user_data, bot_data, keyboards>>
    ELSE /\ meetings' = [meetings EXCEPT ![meeting_id] =
                            << [Row(meeting_id) EXCEPT !.user_b_id = <<user_id>>] >>]
         /\ user_data' = [user_data EXCEPT ![user_id].current_meeting = <<meeting_id>>]
         /\ outbox' = << >>
         /\ UNCHANGED <<user_choices, bot_data, keyboards>>

\* lines 198-223
join_meeting(user_id, meeting_id) ==
    IF meeting_id = ""
    THEN /\ outbox' = << >>    \* reply "provide_meeting_id"
         /\ UNCHANGED <<meetings, user_choices, user_data, bot_data, keyboards>>
    ELSE IF ~valid_meeting_id(meeting_id)
    THEN /\ outbox' = << >>    \* reply "invalid_format"
         /\ UNCHANGED <<meetings, user_choices, user_data, bot_data, keyboards>>
    ELSE IF meetings[meeting_id] = << >>
    THEN /\ outbox' = << >>    \* reply "invalid_meeting_id"
         /\ UNCHANGED <<meetings, user_choices, user_data, bot_data, keyboards>>
    ELSE IF Row(meeting_id).user_b_id # << >>
    THEN /\ outbox' = << >>    \* reply "has_second_participant"
         /\ UNCHANGED <<meetings, user_choices, user_data, bot_data, keyboards>>
    ELSE /\ meetings' = [meetings EXCEPT ![meeting_id] =
                            << [Row(meeting_id) EXCEPT !.user_b_id = <<user_id>>] >>]
         /\ user_data' = [user_data EXCEPT ![user_id].current_meeting = <<meeting_id>>]
         /\ outbox' = << >>    \* reply "joined"
         /\ UNCHANGED <<user_choices, bot_data, keyboards>>

\* context.bot_data.get(meeting_id), recomputed from the database when the
\* cache has no slots for the meeting (lines 233-244)
CommonSlots(meeting_id, host_tz, now_dt, clock) ==
    IF bot_data[meeting_id] # << >> THEN bot_data[meeting_id]
    ELSE LET row == Row(meeting_id)
             meeting_duration == IF row.meeting_duration = << >> THEN 30
                                 ELSE row.meeting_duration[1]
         IN find_best_meeting_slots(<< ContentOf(row.user_a_schedule),
                                       ContentOf(row.user_b_schedule) >>,
                                    meeting_duration, DefaultMaxSlots, host_tz, now_dt, clock)

\* lines 226-284; the button pressed is "select_all" (button = 0) or the
\* button-th slot of a keyboard the user holds
slot_selection(user_id, meeting_id, button, host_tz, now_dt, clock) ==
    /\ keyboards[user_id][meeting_id] > 0
    /\ IF bot_data[meeting_id] = << >> /\ meetings[meeting_id] = << >>
       THEN /\ outbox' = << >>    \* reply "meeting_data_not_found"
            /\ UNCHANGED <<meetings, user_choices, user_data, bot_data, keyboards>>
       ELSE LET common_slots == CommonSlots(meeting_id, host_tz, now_dt, clock)
                selected_slots == user_data[user_id].selected[meeting_id]
                toggled == IF button = 0
                           THEN IF SetOf(common_slots) # selected_slots
                                THEN SetOf(common_slots) ELSE {}
                           ELSE IF common_slots[button] \in selected_slots
                                THEN selected_slots \ {common_slots[button]}
                                ELSE selected_slots \cup {common_slots[button]}
            IN /\ button \in 0..Len(common_slots)
               /\ bot_data' = [bot_data EXCEPT ![meeting_id] = common_slots]
               /\ user_data' = [user_data EXCEPT ![user_id].selected[meeting_id] = toggled]
               /\ outbox' = << >>    \* reply "keyboard_updated"
               /\ UNCHANGED <<meetings, user_choices, keyboards>>

\* lines 303-337: the two rows of the meeting are compared
Conclude(meeting_id, choices, common_slot) ==
    LET user_id_a == choices[1].user_id
        user_id_b == choices[2].user_id
        times == parse_selected_time(common_slot)
        row == Row(meeting_id)
        updated_ics_contents ==
            add_event_to_ics_contents(<< ContentOf(row.user_a_schedule),
                                         ContentOf(row.user_b_schedule) >>,
                                      times[1], times[2], meeting_id, 100)
    IN << Msg(user_id_a, "common_slot_found"), Msg(user_id_b, "common_slot_found"),
          Doc(row.user_a_id, updated_ics_contents[1]),
          Doc(row.user_b_id[1], updated_ics_contents[2]) >>

\* lines 287-343
submit_selection(user_id, meeting_id) ==
    /\ keyboards[user_id][meeting_id] > 0
    /\ IF user_data[user_id].selected[meeting_id] = {}
       THEN /\ outbox' = << >>    \* reply "no_slots_selected"
            /\ UNCHANGED <<meetings, user_choices, user_data, bot_data, keyboards>>
       ELSE LET inserted == Append(user_choices,
                                   [meeting_id |-> meeting_id, user_id |-> user_id,
                                    choices |-> user_data[user_id].selected[meeting_id]])
                choices == ChoicesOf(inserted, meeting_id)
                common_slots_set == choices[1].choices \cap choices[2].choices
            IN /\ user_choices' = inserted
               /\ keyboards' = [keyboards EXCEPT ![user_id][meeting_id] = @ - 1]
               /\ user_data' = [user_data EXCEPT ![user_id].current_meeting = << >>]
               /\ IF Len(choices) # 2 THEN outbox' = << >>
                  ELSE IF common_slots_set = {}
                  THEN outbox' = << Msg(choices[1].user_id, "choose_again"),
                                    Msg(choices[2].user_id, "choose_again") >>
                  ELSE \E common_slot \in common_slots_set :
                          outbox' = Conclude(meeting_id, choices, common_slot)
               /\ UNCHANGED <<meetings, bot_data>>

\* the process is started again: user_data and bot_data live in memory only
\* (line 377 builds the Application without persistence), the database and
\* the keyboards already sent remain
restart ==
    /\ user_data' = [u \in Users |-> NoUserData]
    /\ bot_data' = [m \in MeetingIds |-> << >>]
    /\ outbox' = << >>
    /\ UNCHANGED <<meetings, user_choices, keyboards>>

InitBot ==
    /\ EngineIdle
    /\ DayIdle
    /\ BotStart

StartNewMeeting ==
    /\ \E user_id \in Users : start_new_meeting(user_id)
    /\ UNCHANGED nonBotVars

HandleText ==
    /\ \E user_id \in Users, text \in Texts : handle_text(user_id, text)
    /\ UNCHANGED nonBotVars

\* the two clock readings of one call fall on the same date for the readings
\* of BotNows, so the second one is taken equal to the first
HandleIcsUpload ==
    /\ \E user_id \in Users, calendar_content \in Uploads, w \in BotNows, z \in BotZones :
          handle_ics_upload(user_id, calendar_content, z, Wall(w[1], w[2], w[3], w[4], z),
                            Wall(w[1], w[2], w[3], w[4], z))
    /\ UNCHANGED nonBotVars

JoinMeeting ==
    /\ \E user_id \in Users, meeting_id \in JoinArgs : join_meeting(user_id, meeting_id)
    /\ UNCHANGED nonBotVars

SlotSelection ==
    /\ \E user_id \in Users, meeting_id \in MeetingIds, w \in BotNows, z \in BotZones :
          /\ keyboards[user_id][meeting_id] > 0
          /\ \E button \in 0..DefaultMaxSlots :
                slot_selection(user_id, meeting_id, button, z,
                               Wall(w[1], w[2], w[3], w[4], z),
                               Wall(w[1], w[2], w[3], w[4], z))
    /\ UNCHANGED nonBotVars

SubmitSelection ==
    /\ Len(user_choices) < MaxChoiceRows
    /\ \E user_id \in Users, meeting_id \in MeetingIds : submit_selection(user_id, meeting_id)
    /\ UNCHANGED nonBotVars

Restart ==
    /\ restart
    /\ UNCHANGED nonBotVars

NextBot ==
    \/ StartNewMeeting
    \/ HandleText
    \/ HandleIcsUpload
    \/ JoinMeeting
    \/ SlotSelection
    \/ SubmitSelection
    \/ Restart

SpecBot == InitBot /\ [][NextBot]_vars

\* The bot from the point where the slots are offered: user 1 has created the
\* meeting with a duration of 30 minutes, user 2 has joined, both have uploaded
\* a calendar without events, and each holds the keyboard sent to them.
InitChoose ==
    /\ EngineIdle
    /\ DayIdle
    /\ user_choices = << >>
    /\ \E m \in {"111 111 111 111"}, w \in BotNows, z \in BotZones :
          LET now_dt == Wall(w[1], w[2], w[3], w[4], z)
              row == [NewMeetingRow(1) EXCEPT !.user_a_schedule = << Payload(<< >>) >>,
                                              !.user_b_schedule = << Payload(<< >>) >>,
                                              !.user_b_id = <<2>>,
                                              !.meeting_duration = <<30>>]
              common_slots == find_best_meeting_slots(<< Payload(<< >>), Payload(<< >>) >>, 30,
                                                      DefaultMaxSlots, z, now_dt, now_dt)
          IN /\ meetings = [i \in MeetingIds |-> IF i = m THEN <<row>> ELSE << >>]
             /\ user_data = [u \in Users |->
                                IF u \in {1, 2}
                                THEN [NoUserData EXCEPT !.current_meeting = <<m>>]
                                ELSE NoUserData]
             /\ bot_data = [i \in MeetingIds |-> IF i = m THEN common_slots ELSE << >>]
             /\ keyboards = [u \in Users |-> [i \in MeetingIds |->
                                IF u \in {1, 2} /\ i = m THEN 1 ELSE 0]]
             /\ outbox = << Msg(1, "calculating"), Msg(2, "calculating"),
                            Msg(1, "common_free_slots"), Msg(2, "common_free_slots") >>

SubmitSelectionAgain ==
    /\ Len(user_choices) < MaxAgainRows
    /\ \E user_id \in Users, meeting_id \in MeetingIds : submit_selection(user_id, meeting_id)
    /\ UNCHANGED nonBotVars

NextChoose ==
    \/ HandleIcsUpload
    \/ SlotSelection
    \/ SubmitSelectionAgain

\* Every callback query a user sends is handled (line 389, run_polling), and
\* the users keep pressing the buttons of the keyboards they hold.
SpecChoose ==
    /\ InitChoose
    /\ [][NextChoose]_vars
    /\ WF_vars(SlotSelection)
    /\ WF_vars(SubmitSelectionAgain)

(***************************************************************************)
(* Properties                                                              *)
(***************************************************************************)
Returned == pc = "done"

WorkStart(day) == Wall(day, WorkStartHour, 0, 0, tzinfo)

WorkEnd(day) == Wall(day, WorkEndHour, 0, 0, tzinfo)

InDays(day) == \E i \in 1..Len(scheduling_days) : scheduling_days[i] = day

\* the slot [c.start, c.end) meets the event [e.begin, e.end)
Overlaps(c, e) == e.begin < c.end /\ c.start < e.end

\* the slot is an interval inside the working window of its day, the day is a
\* scheduling day, and the slot meets no event
Contained(c) ==
    LET day == DateOf(c.start, tzinfo)
    IN /\ InDays(day)
       /\ WorkStart(day) <= c.start
       /\ c.start <= c.end
       /\ c.end <= WorkEnd(day)
       /\ \A i \in 1..Len(all_events) : ~Overlaps(c, all_events[i])

\* C1: every returned slot lies inside the working window [09:00,17:00) of its
\* scheduling day in the host zone and overlaps no event of any loaded calendar.
C1_Containment ==
    Returned => \A i \in 1..Len(best_slots) : Contained(best_slots[i])

\* C2: for every returned slot, end minus start is exactly duration_minutes.
C2_ExactDuration ==
    Returned => \A i \in 1..Len(best_slots) :
                   best_slots[i].end - best_slots[i].start = meeting_duration_minutes * 60

\* a slot is returned whose rounded start differs from the centred instant of a
\* free interval that begins at the (second-carrying) clock reading
C2_Witness ==
    /\ Returned
    /\ meeting_duration_minutes > 0
    /\ SecondOf(current_dt, tzinfo) # 0
    /\ \E i \in 1..Len(best_slots) :
          /\ DateOf(best_slots[i].start, tzinfo) = DateOf(current_dt, tzinfo)
          /\ best_slots[i].start - current_dt # best_slots[i].score

\* C3: no returned slot starts before the clock reading of the call (stated for
\* the positive durations, which C4 does not concern).
C3_NeverInPast ==
    (Returned /\ meeting_duration_minutes > 0)
        => \A i \in 1..Len(best_slots) : best_slots[i].start >= current_dt

\* C4: a call with duration_minutes <= 0 parses no payload, runs no interval
\* computation and returns no slot list.
C4_InvalidDurationRejected ==
    meeting_duration_minutes <= 0 => (loaded = 0 /\ pc \in {"load", "error"})

\* C5: parse_selected_time applied to a returned descriptor yields the start and
\* end instants of the candidate it was formatted from (positive durations).
C5_ParseRoundTrip ==
    (selected # << >> /\ meeting_duration_minutes > 0)
        => /\ selected[1].start_time = best_slots[selected[1].index].start
           /\ selected[1].end_time = best_slots[selected[1].index].end

\* the index of candidate c in generation order (candidates are distinct)
Pos(c) == CHOOSE i \in 1..Len(candidate_slots) : candidate_slots[i] = c

IsBest(c) == \E i \in 1..Len(best_slots) : best_slots[i] = c

\* C6: the returned list is ordered by non-increasing score, holds the
\* min(max_slots, number of candidates) highest-scoring candidates, and among
\* equal scores generation order (day by day, chronological within a day)
\* decides both the order and who is kept.
C6_Ranking ==
    Returned =>
        /\ Len(best_slots) = Min(max_slots, Len(candidate_slots))
        /\ Len(formatted_slots) = Len(best_slots)
        /\ \A i \in 1..Len(best_slots) :
              \E k \in 1..Len(candidate_slots) : candidate_slots[k] = best_slots[i]
        /\ \A i, j \in 1..Len(candidate_slots) :
              i < j => candidate_slots[i].start < candidate_slots[j].start
        /\ \A i, j \in 1..Len(best_slots) :
              i < j => \/ best_slots[i].score > best_slots[j].score
                       \/ /\ best_slots[i].score = best_slots[j].score
                          /\ Pos(best_slots[i]) < Pos(best_slots[j])
        /\ \A k \in 1..Len(candidate_slots) :
              ~IsBest(candidate_slots[k]) =>
                 \A i \in 1..Len(best_slots) :
                    \/ best_slots[i].score > candidate_slots[k].score
                    \/ /\ best_slots[i].score = candidate_slots[k].score
                       /\ Pos(best_slots[i]) < k

\* more candidates than max_slots, a tie inside the returned list, and a
\* lower-scoring candidate generated before the first returned one
C6_Witness ==
    /\ Returned
    /\ Len(candidate_slots) > max_slots
    /\ Len(best_slots) >= 2
    /\ best_slots[1].score = best_slots[2].score
    /\ candidate_slots[1].score < best_slots[1].score

\* an event as re-parsing recovers it: identity, span and description
Core(e) == [uid |-> e.uid, begin |-> e.begin, end |-> e.end, description |-> e.description]

EventsOf(ics_content) ==
    { Core(ics_content.events[i]) : i \in 1..Len(ics_content.events) }

HasMalformed == \E i \in 1..Len(ics_contents) : ~ics_contents[i].ok

FirstMalformed == CHOOSE i \in 1..Len(ics_contents) :
                     /\ ~ics_contents[i].ok
                     /\ \A j \in 1..(i - 1) : ics_contents[j].ok

\* C8: with a malformed payload among the arguments the call never gets past
\* loading: it stops with the error at the first malformed payload and no slot
\* list, empty or not, is computed.
C8_MalformedFails ==
    HasMalformed =>
        /\ \/ pc = "error" /\ loaded = FirstMalformed - 1
           \/ pc = "load" /\ loaded < FirstMalformed
        /\ candidate_slots = << >>
        /\ best_slots = << >>
        /\ formatted_slots = << >>

\* the call failed on its second payload after loading a valid first one
C8_Witness ==
    /\ pc = "error"
    /\ loaded = 1
    /\ Len(all_events) > 0

\* the instants at which a maximal free interval of a day can begin or end
Boundaries(day) ==
    {WorkStart(day), WorkEnd(day)}
        \cup { all_events[i].begin : i \in 1..Len(all_events) }
        \cup { all_events[i].end : i \in 1..Len(all_events) }

\* the day has an interval inside the working window, free of every event,
\* of length at least td
HasGap(day, td) ==
    \E a, b \in Boundaries(day) :
        /\ WorkStart(day) <= a
        /\ a < b
        /\ b <= WorkEnd(day)
        /\ b - a >= td
        /\ \A i \in 1..Len(all_events) :
              ~(all_events[i].begin < b /\ a < all_events[i].end)

NoAvailability ==
    \A i \in 1..Len(scheduling_days) :
        ~HasGap(scheduling_days[i], meeting_duration_minutes * 60)

\* C9: when no scheduling day has a free interval of at least the duration, the
\* call returns the empty list; the only error of a call is a malformed payload.
C9_EmptyIsNotError ==
    /\ (Returned /\ NoAvailability) => formatted_slots = << >>
    /\ pc = "error" => HasMalformed

\* a fully booked week and a duration that would fit an empty day
C9_Witness ==
    /\ Returned
    /\ NoAvailability
    /\ all_events # << >>
    /\ meeting_duration_minutes = 30
    /\ formatted_slots = << >>

DaysChosen == pc \in {"scan", "rank", "done"}

DaySet == { scheduling_days[i] : i \in 1..Len(scheduling_days) }

\* C10: the week is a Monday..Friday; if the date of now lies in it the
\* scheduling days are exactly that date through Friday, otherwise exactly
\* Monday through Friday; in ascending order.
C10_SchedulingDays ==
    DaysChosen =>
        LET today == DateOf(current_dt, tzinfo)
            monday == week[1]
            friday == week[2]
        IN /\ Weekday(monday) = 0
           /\ friday = monday + 4
           /\ \A i, j \in 1..Len(scheduling_days) :
                 i < j => scheduling_days[i] < scheduling_days[j]
           /\ DaySet = IF monday <= today /\ today <= friday
                       THEN today..friday ELSE monday..friday

\* now on the Thursday of the inferred week: exactly Thursday and Friday
C10_Witness ==
    /\ DaysChosen
    /\ Weekday(DateOf(current_dt, tzinfo)) = 3
    /\ week[1] + 3 = DateOf(current_dt, tzinfo)
    /\ scheduling_days = <<week[1] + 3, week[1] + 4>>

(***************************************************************************)
(* Week inference and the scenarios                                        *)
(***************************************************************************)
\* the Monday..Friday of the week that contains the date
WeekOf(date) == <<date - (date % 7), date - (date % 7) + 4>>

\* the earliest begin date over the loaded events, each in its own zone
EarliestEventDate ==
    CHOOSE d \in { DateOf(all_events[i].begin, all_events[i].tz) : i \in 1..Len(all_events) } :
        \A i \in 1..Len(all_events) : d <= DateOf(all_events[i].begin, all_events[i].tz)

\* C11: the scheduling week is the Monday..Friday of the week of the earliest
\* event date; with no event at all it is the week of the very clock reading
\* current_dt that day selection and today-clipping use.
C11_WeekInference ==
    DaysChosen =>
        week = IF all_events # << >> THEN WeekOf(EarliestEventDate)
               ELSE WeekOf(DateOf(current_dt, tzinfo))

Slot(date, sh, sm, eh, em) == [date |-> date, sh |-> sh, sm |-> sm, eh |-> eh, em |-> em]

\* Scenario A: two calendars without events, 30 minutes, now a Monday 08:00
ScenarioA ==
    /\ Returned
    /\ ics_contents = <<Payload(<< >>), Payload(<< >>)>>
    /\ meeting_duration_minutes = 30
    /\ Weekday(DateOf(current_dt, tzinfo)) = 0
    /\ current_dt = Wall(DateOf(current_dt, tzinfo), 8, 0, 0, tzinfo)

\* C12 as stated: in Scenario A a slot "<that Monday>: 12:55-13:25" is returned.
C12_ScenarioA_AsStated ==
    ScenarioA => \E i \in 1..Len(formatted_slots) :
                    formatted_slots[i] = Slot(DateOf(current_dt, tzinfo), 12, 55, 13, 25)

\* C12 amended: in Scenario A the first returned slot is that Monday's centred
\* slot "<that Monday>: 12:45-13:15", and it is the only slot of that Monday.
C12_ScenarioA ==
    ScenarioA =>
        /\ Len(formatted_slots) >= 1
        /\ formatted_slots[1] = Slot(DateOf(current_dt, tzinfo), 12, 45, 13, 15)
        /\ \A i \in 2..Len(formatted_slots) :
              formatted_slots[i].date # DateOf(current_dt, tzinfo)

C12_Witness == ScenarioA /\ max_slots = DefaultMaxSlots /\ Len(formatted_slots) = 5

Spans == { <<all_events[i].begin, all_events[i].end>> : i \in 1..Len(all_events) }

\* Scenario B on the day: the events are exactly 09:00-12:00 and 13:00-17:00
\* of that scheduling day, the duration is 30 minutes
ScenarioB(day) ==
    /\ pc \in {"rank", "done"}
    /\ InDays(day)
    /\ meeting_duration_minutes = 30
    /\ Spans = { <<Wall(day, 9, 0, 0, tzinfo), Wall(day, 12, 0, 0, tzinfo)>>,
                 <<Wall(day, 13, 0, 0, tzinfo), Wall(day, 17, 0, 0, tzinfo)>> }

CandidatesOn(day) ==
    { candidate_slots[i] : i \in { k \in 1..Len(candidate_slots) :
                                      DateOf(candidate_slots[k].start, tzinfo) = day } }

FreeOn(day) ==
    free_intervals_for_day(all_events, day, tzinfo, day = DateOf(current_dt, tzinfo), current_dt)

ScenarioBResult(day) ==
    /\ FreeOn(day) = << <<Wall(day, 12, 0, 0, tzinfo), Wall(day, 13, 0, 0, tzinfo)>> >>
    /\ Cardinality(CandidatesOn(day)) = 1
    /\ \A c \in CandidatesOn(day) :
          /\ c.start = Wall(day, 12, 15, 0, tzinfo)
          /\ c.end = Wall(day, 12, 45, 0, tzinfo)

NowPastNoon(day) ==
    DateOf(current_dt, tzinfo) = day /\ current_dt > Wall(day, 12, 0, 0, tzinfo)

\* C13 as stated: in Scenario B the day's only free interval is [12:00,13:00)
\* and its only candidate is 12:15-12:45.
C13_ScenarioB_AsStated ==
    \A day \in 7..18 : ScenarioB(day) => ScenarioBResult(day)

\* C13 amended: the same, provided the day is not today with now later than
\* 12:00 (then the free interval begins at now).
C13_ScenarioB ==
    \A day \in 7..18 : (ScenarioB(day) /\ ~NowPastNoon(day)) => ScenarioBResult(day)

\* Scenario B on today, now = 08:00
C13_Witness ==
    \E day \in 7..18 :
        /\ ScenarioB(day)
        /\ DateOf(current_dt, tzinfo) = day
        /\ ~NowPastNoon(day)

\* C14: every candidate, and so every returned slot, starts on a minute that is
\* a multiple of 5 with zero seconds.
C14_FiveMinuteGrid ==
    /\ \A i \in 1..Len(candidate_slots) :
          /\ MinuteOf(candidate_slots[i].start, tzinfo) % 5 = 0
          /\ SecondOf(candidate_slots[i].start, tzinfo) = 0
    /\ \A i \in 1..Len(formatted_slots) : formatted_slots[i].sm % 5 = 0

\* a slot of today is returned and the free interval began at a reading of the
\* clock that carries seconds
C14_Witness ==
    /\ Returned
    /\ SecondOf(current_dt, tzinfo) = 20
    /\ \E i \in 1..Len(best_slots) :
          DateOf(best_slots[i].start, tzinfo) = DateOf(current_dt, tzinfo)

(***************************************************************************)
(* The per-day functions                                                   *)
(***************************************************************************)
DayWorkStart == Wall(day_arg, WorkStartHour, 0, 0, day_tzinfo)

DayWorkEnd == Wall(day_arg, WorkEndHour, 0, 0, day_tzinfo)

Merged == day_pc \in {"free", "candidates"}

Freed == day_pc = "candidates"

\* the instant lies in some interval [start, end) of the list
InList(t, list) == \E i \in 1..Len(list) : list[i][1] <= t /\ t < list[i][2]

\* the instant lies in some input event clipped to the working window
InClippedInput(t) ==
    \E i \in 1..Len(day_events) :
        /\ Max(day_events[i].begin, DayWorkStart) <= t
        /\ t < Min(day_events[i].end, DayWorkEnd)

\* Every instant at which membership in an interval of the inputs or of the
\* results can change; between two consecutive ones membership is constant.
Breakpoints ==
    {DayWorkStart, DayWorkEnd, DayWorkStart - 60, DayWorkEnd + 60}
    \cup { day_events[i].begin : i \in 1..Len(day_events) }
    \cup { day_events[i].end : i \in 1..Len(day_events) }
    \cup { merged_list[i][1] : i \in 1..Len(merged_list) }
    \cup { merged_list[i][2] : i \in 1..Len(merged_list) }
    \cup { free_list[i][1] : i \in 1..Len(free_list) }
    \cup { free_list[i][2] : i \in 1..Len(free_list) }

\* C15: events_for_day returns intervals in start order, each one ending
\* strictly before the next begins (disjoint and not touching), and an instant
\* is covered by the result exactly when it is covered by an input event
\* clipped to [09:00,17:00) of the day.
C15_MergeCorrect ==
    Merged =>
        /\ \A i \in 1..Len(merged_list) : merged_list[i][1] <= merged_list[i][2]
        /\ \A i \in 1..(Len(merged_list) - 1) :
              /\ merged_list[i][1] <= merged_list[i + 1][1]
              /\ merged_list[i][2] < merged_list[i + 1][1]
        /\ \A t \in Breakpoints : InList(t, merged_list) <=> InClippedInput(t)

\* three inputs that touch or overlap in a chain were merged into one interval
C15_Witness ==
    /\ Merged
    /\ Len(day_events) = 3
    /\ Len(merged_list) = 1
    /\ \E i, j \in 1..3 : day_events[i].end = day_events[j].begin
    /\ \A i \in 1..3 : day_events[i].end - day_events[i].begin < merged_list[1][2] - merged_list[1][1]

\* C16: without clipping to a current instant, every instant of [09:00,17:00)
\* lies in exactly one of the free intervals and the merged busy intervals, and
\* no instant outside the window lies in either.
C16_FreeBusyPartition ==
    (Freed /\ day_current_dt = << >>) =>
        \A t \in Breakpoints :
            /\ (DayWorkStart <= t /\ t < DayWorkEnd)
                  => (InList(t, free_list) <=> ~InList(t, merged_list))
            /\ (t < DayWorkStart \/ t >= DayWorkEnd)
                  => (~InList(t, free_list) /\ ~InList(t, merged_list))

\* busy and free intervals alternate: two busy ones with free time before,
\* between and after
C16_Witness ==
    /\ Freed
    /\ day_current_dt = << >>
    /\ Len(merged_list) = 2
    /\ Len(free_list) = 3

ClippedToday ==
    /\ day_current_dt # << >>
    /\ day_arg = DateOf(day_current_dt[1], day_tzinfo)

\* C17: the free intervals are in order, pairwise disjoint, non-empty and
\* inside [09:00,17:00) of the day; when the day is today and a current instant
\* is supplied none starts before it.
C17_FreeIntervals ==
    Freed =>
        /\ \A i \in 1..Len(free_list) :
              /\ free_list[i][1] < free_list[i][2]
              /\ DayWorkStart <= free_list[i][1]
              /\ free_list[i][2] <= DayWorkEnd
              /\ ClippedToday => free_list[i][1] >= day_current_dt[1]
        /\ \A i \in 1..(Len(free_list) - 1) : free_list[i][2] <= free_list[i + 1][1]

\* today, with a free interval wholly before the current instant dropped and
\* another one cut at it
C17_Witness ==
    /\ Freed
    /\ ClippedToday
    /\ \E t \in Breakpoints :
          /\ t < day_current_dt[1]
          /\ DayWorkStart <= t
          /\ ~InList(t, merged_list)
    /\ \E i \in 1..Len(free_list) : free_list[i][1] = day_current_dt[1]

\* the instant rounded to the nearest 5-minute boundary of the zone, half up
Nearest5(t, zone) == ((Local(t, zone) + 150) \div 300) * 300 - zone * 60

Centered(interval) == interval[1] + (interval[2] - interval[1] - day_meeting_td * 60) \div 2

\* C18: a candidate starts at interval.start + slack/2 rounded to the nearest
\* 5-minute boundary, exactly 2.5 minutes past a boundary rounding up.
C18_NearestFiveMinutes ==
    \A i \in 1..Len(candidates) :
        candidates[i] # << >> =>
            candidates[i][1].start = Nearest5(Centered(free_list[i]), day_tzinfo)

\* C19: no candidate for an interval shorter than the duration, none when the
\* rounded slot starts before the interval or ends after it, and otherwise
\* exactly the rounded slot with score = half the slack before rounding, >= 0.
C19_DiscardOrScore ==
    \A i \in 1..Len(candidates) :
        LET start == free_list[i][1]
            end == free_list[i][2]
            td == day_meeting_td * 60
            slack == end - start - td
            rounded == RoundStart(Centered(free_list[i]), day_tzinfo)
        IN IF end - start < td THEN candidates[i] = << >>
           ELSE IF rounded < start \/ rounded + td > end THEN candidates[i] = << >>
           ELSE /\ Len(candidates[i]) = 1
                /\ candidates[i][1].start = rounded
                /\ candidates[i][1].end = rounded + td
                /\ 2 * candidates[i][1].score = slack
                /\ candidates[i][1].score >= 0

\* an interval long enough whose rounded slot ends after it was discarded, and
\* another interval gave a candidate
C19_Witness ==
    /\ \E i \in 1..Len(candidates) :
          /\ free_list[i][2] - free_list[i][1] >= day_meeting_td * 60
          /\ candidates[i] = << >>
    /\ \E i \in 1..Len(candidates) : candidates[i] # << >>

(***************************************************************************)
(* The bot's database                                                      *)
(***************************************************************************)
\* C20: once user_a_schedule, respectively user_b_schedule, of a meeting is
\* non-null, no step of any handler (upload, join, text, selection,
\* submission, restart) changes it, and the row stays.
C20_ScheduleStoredOnce ==
    [][\A m \in MeetingIds :
          meetings[m] # << >> =>
              /\ meetings'[m] # << >>
              /\ Row(m).user_a_schedule # << >>
                    => meetings'[m][1].user_a_schedule = Row(m).user_a_schedule
              /\ Row(m).user_b_schedule # << >>
                    => meetings'[m][1].user_b_schedule = Row(m).user_b_schedule]_vars

\* both calendars are stored, a participant has uploaded again (the creator
\* holds a second keyboard) and the other one has submitted a selection
C20_Witness ==
    \E m \in MeetingIds :
        /\ meetings[m] # << >>
        /\ Row(m).user_a_schedule # << >>
        /\ Row(m).user_b_schedule # << >>
        /\ keyboards[Row(m).user_a_id][m] = 2
        /\ \E i \in 1..Len(user_choices) : user_choices[i].user_id = Row(m).user_b_id[1]

\* the last handler announced a common slot and sent the updated calendars
Finalized ==
    /\ Len(outbox) = 4
    /\ outbox[1].text = "common_slot_found"
    /\ outbox[3].document # << >>

\* the event injected into the creator's calendar by the last handler
InjectedEvent ==
    LET events == outbox[3].document[1].events IN events[Len(events)]

\* the descriptor whose parse gives the injected event's begin and end
IsFinalizedSlot(slot) ==
    /\ parse_selected_time(slot)[1] = InjectedEvent.begin
    /\ parse_selected_time(slot)[2] = InjectedEvent.end

\* C21: a slot is finalized only when the two rows of the meeting in
\* user_choices come from its two participants, two distinct users, and the
\* finalized slot is in the submitted selection of both.
C21_FinalizedByBoth ==
    Finalized =>
        LET m == InjectedEvent.description
            choices == ChoicesOf(user_choices, m)
        IN /\ Len(choices) = 2
           /\ choices[1].user_id # choices[2].user_id
           /\ {choices[1].user_id, choices[2].user_id}
                 = {Row(m).user_a_id, Row(m).user_b_id[1]}
           /\ \E slot \in choices[1].choices \cap choices[2].choices : IsFinalizedSlot(slot)

\* C23: in every reachable state a meeting with a stored calendar has a
\* meeting_duration.
C23_DurationBeforeUpload ==
    \A m \in MeetingIds :
        (/\ meetings[m] # << >>
         /\ Row(m).user_a_schedule # << >> \/ Row(m).user_b_schedule # << >>)
            => Row(m).meeting_duration # << >>

\* C24: the row of a meeting is never removed or re-created, its user_a_id
\* never changes, and its user_b_id, once set, never changes.
C24_ParticipantsFixed ==
    [][\A m \in MeetingIds :
          meetings[m] # << >> =>
              /\ meetings'[m] # << >>
              /\ meetings'[m][1].user_a_id = Row(m).user_a_id
              /\ Row(m).user_b_id # << >>
                    => meetings'[m][1].user_b_id = Row(m).user_b_id]_vars

\* a meeting with two distinct participants after which uploads, selections
\* and a submission were handled, and a third user who holds no meeting
C24_Witness ==
    \E m \in MeetingIds :
        /\ meetings[m] # << >>
        /\ Row(m).user_b_id # << >>
        /\ Row(m).user_b_id[1] # Row(m).user_a_id
        /\ user_choices # << >>
        /\ \E u \in Users : /\ u \notin {Row(m).user_a_id, Row(m).user_b_id[1]}
                            /\ user_data[u].current_meeting = << >>

\* the first two submissions for the meeting, by two distinct users, shared no
\* slot (both were told to choose again), and the same two users have each
\* submitted again, these two selections sharing a slot
ChoseAgain(m) ==
    LET choices == ChoicesOf(user_choices, m)
    IN /\ Len(choices) >= 4
       /\ choices[1].user_id # choices[2].user_id
       /\ choices[1].choices \cap choices[2].choices = {}
       /\ {choices[3].user_id, choices[4].user_id}
             = {choices[1].user_id, choices[2].user_id}
       /\ choices[3].choices \cap choices[4].choices # {}

\* C22: after "No common slots found. Please choose again.", once both users
\* have re-submitted selections that share a slot, a slot of the meeting is
\* eventually finalized.
C22_ChooseAgainFinalizes ==
    \A m \in MeetingIds :
        ChoseAgain(m) ~> (Finalized /\ InjectedEvent.description = m)

===========================================================================
